---- MODULE Spec2Model ----
(***************************************************************************)
(* A model of the postgres migration driver (driver/postgres/postgres.go): *)
(* Initialize, Version and the Migrate goroutine with its progress channel *)
(* and the database it talks to.                                           *)
(***************************************************************************)
EXTENDS Integers, Sequences, FiniteSets, TLC

\* ------------------------------------------------------------------ bounds
\* Versions of migration files and of pre-existing rows range over 1..MaxVersion.
MaxVersion == 2
\* The largest error position the database reports in a pq error.
MaxOffset == 20

Versions == 1..MaxVersion

\* ------------------------------------------------------------- SQL texts
LF == "\n"
CR == "\r"

\* "-- migrate: no-transaction\n", byte by byte.
NoTransactionMarker ==
    << "-", "-", " ", "m", "i", "g", "r", "a", "t", "e", ":", " ",
       "n", "o", "-", "t", "r", "a", "n", "s", "a", "c", "t", "i", "o", "n", LF >>

\* "SELECT 1;\nBAD SQL;\n"
SampleSql ==
    << "S", "E", "L", "E", "C", "T", " ", "1", ";", LF,
       "B", "A", "D", " ", "S", "Q", "L", ";", LF >>

\* The marker followed by a statement.
MarkedSql == NoTransactionMarker \o << "X", ";", LF >>

\* The marker with a CR LF line ending.
CrLfMarkedSql ==
    SubSeq(NoTransactionMarker, 1, Len(NoTransactionMarker) - 1) \o << CR, LF, "X", ";" >>

\* The marker on the second line.
ShiftedMarkedSql == << LF >> \o NoTransactionMarker \o << "X", ";" >>

\* The marker spelled with a capital letter.
MisspelledMarkedSql == << "-", "-", " ", "M" >> \o SubSeq(NoTransactionMarker, 5, Len(NoTransactionMarker))

\* The marker without its line feed, at the end of the file.
TruncatedMarkedSql == SubSeq(NoTransactionMarker, 1, Len(NoTransactionMarker) - 1)

Contents ==
    { SampleSql, MarkedSql, NoTransactionMarker, CrLfMarkedSql, ShiftedMarkedSql,
      MisspelledMarkedSql, TruncatedMarkedSql, << >> }

Directions == { "Up", "Down" }

Files == [ version : Versions, direction : Directions, text : Contents ]

NoFile == [ version |-> 0, direction |-> "none", text |-> << >> ]

\* ------------------------------------------------------- pure functions
HasPrefix(s, prefix) ==
    /\ Len(s) >= Len(prefix)
    /\ SubSeq(s, 1, Len(prefix)) = prefix

canUseTransaction_anywhere(sql) ==
    ~ \E i \in 1..Len(sql) : HasPrefix(SubSeq(sql, i, Len(sql)), NoTransactionMarker)

canUseTransaction(sql) == ~ HasPrefix(sql, NoTransactionMarker)

\* The number of line feeds among the first n bytes of data.
RECURSIVE CountNewlines(_, _)
CountNewlines(data, n) ==
    IF n <= 0 THEN 0
    ELSE CountNewlines(data, n - 1) + (IF data[n] = LF THEN 1 ELSE 0)

\* The 1-based index of the last line feed among the first n bytes, 0 if none.
RECURSIVE LastNewline(_, _)
LastNewline(data, n) ==
    IF n <= 0 THEN 0
    ELSE IF data[n] = LF THEN n ELSE LastNewline(data, n - 1)

\* file.LineColumnFromOffset for a 0-based offset inside the text: line and
\* column are 1-based, the line counts the line feeds before the offset and
\* the column is the distance from the last of them.
LineColumnFromOffset(data, offset) ==
    << 1 + CountNewlines(data, offset), offset + 1 - LastNewline(data, offset) >>

\* What the conversion can return: an offset outside the text has no defined
\* position, and the result is the zero position or the first position.
LineColumnResults(data, offset) ==
    IF offset >= 0 /\ offset <= Len(data)
    THEN { LineColumnFromOffset(data, offset) }
    ELSE { << 0, 0 >>, << 1, 1 >> }

\* The lines of data, split at line feeds (a trailing line feed ends with an
\* empty line).
RECURSIVE SplitLines(_, _)
SplitLines(data, acc) ==
    IF data = << >> THEN << acc >>
    ELSE IF Head(data) = LF THEN << acc >> \o SplitLines(Tail(data), << >>)
    ELSE SplitLines(Tail(data), Append(acc, Head(data)))

Lines(data) == SplitLines(data, << >>)

Min2(a, b) == IF a < b THEN a ELSE b
Max2(a, b) == IF a > b THEN a ELSE b

\* file.LinesBeforeAndAfter: the lines from `before` lines before the line
\* to `after` lines after it, trimmed at the boundaries of the text.
LinesBeforeAndAfter(data, line, before, after) ==
    SubSeq(Lines(data), Max2(1, line - before), Min2(Len(Lines(data)), line + after))

ContextBefore == 5
ContextAfter == 5

\* strconv.Atoi of pq.Error.Position: a position is either a string Atoi
\* rejects (the empty string when none was reported) or a decimal number; the
\* server counts the characters of the query from 1, and the position after
\* the last one stands for the end of the input.
PqPositions(sql) ==
    { [ numeric |-> FALSE, n |-> 0 ] }
        \cup { [ numeric |-> TRUE, n |-> p ] : p \in 1..Min2(Len(sql) + 1, MaxOffset) }

\* ------------------------------------------------------------- messages
NoMsg == [ type |-> "none", kind |-> "none", version |-> 0, direction |-> "none",
           line |-> 0, column |-> 0, context |-> << >> ]

FileMsg(file) == [ NoMsg EXCEPT !.type = "file", !.kind = "file",
                                !.version = file.version, !.direction = file.direction ]

ErrMsg(kind) == [ NoMsg EXCEPT !.type = "error", !.kind = kind ]

\* The offset handed to LineColumnFromOffset for a reported position.
ReportedOffset_unshifted(position) == position

ReportedOffset(position) == position - 1

\* The error internalMigrate returns for a *pq.Error: with line, column and
\* context when the position is a non-negative number, plain otherwise.
PqErrorMsgs(sql, pos) ==
    IF pos.numeric /\ pos.n >= 0
    THEN { [ ErrMsg("execAt") EXCEPT
               !.line = lc[1], !.column = lc[2],
               !.context = LinesBeforeAndAfter(sql, lc[1], ContextBefore, ContextAfter) ]
           : lc \in LineColumnResults(sql, ReportedOffset(pos.n)) }
    ELSE { ErrMsg("execPlain") }

MaxOf(S) == CHOOSE m \in S : \A x \in S : x <= m

\* QueryRow("SELECT version ... ORDER BY version DESC LIMIT 1").Scan(&version):
\* the error and the scanned version (0, the variable's zero value, on error).
ScanVersion(table, queryFails) ==
    IF queryFails THEN [ err |-> "other", version |-> 0 ]
    ELSE IF table = {} THEN [ err |-> "ErrNoRows", version |-> 0 ]
    ELSE [ err |-> "nil", version |-> MaxOf(table) ]

\* The switch of Version() on the error of the scan.
VersionReturn_noRowsIsError(scan) ==
    IF scan.err = "nil" THEN [ version |-> scan.version, err |-> FALSE ]
    ELSE [ version |-> 0, err |-> TRUE ]

VersionReturn(scan) ==
    IF scan.err = "ErrNoRows" THEN [ version |-> 0, err |-> FALSE ]
    ELSE IF scan.err # "nil" THEN [ version |-> 0, err |-> TRUE ]
    ELSE [ version |-> scan.version, err |-> FALSE ]

\* What Version() returns when the query itself does not fail.
VersionQuery(table) == VersionReturn(ScanVersion(table, FALSE)).version

\* The version statement of internalMigrate applied to a table.
VersionStmt_deleteUpTo(table, file) ==
    IF file.direction = "Up" THEN table \cup { file.version }
    ELSE IF file.direction = "Down" THEN { x \in table : x > file.version }
    ELSE table

VersionStmt(table, file) ==
    IF file.direction = "Up" THEN table \cup { file.version }
    ELSE IF file.direction = "Down" THEN table \ { file.version }
    ELSE table

\* version is the primary key: inserting a stored version fails.
PrimaryKeyViolation_never(table, file) == FALSE

PrimaryKeyViolation(table, file) ==
    file.direction = "Up" /\ file.version \in table

\* ---------------------------------------------------------------- state
VARIABLES
    initResult,     \* what Initialize returned: "none" before the call
    initSteps,      \* the steps Initialize performed, in order, with their outcome
    db,             \* driver.db: "nil" or "open"
    tableExists,    \* whether schema_migrations exists
    rows,           \* the committed rows of schema_migrations (versions)
    schema,         \* the committed effect of the current file's SQL text
    txState,        \* the transaction of the current Migrate call
    txRows,         \* schema_migrations as seen inside the transaction
    txSchema,       \* the SQL text's effect inside the transaction
    pc,             \* where the Migrate goroutine stands
    f,              \* the file of the current Migrate call
    content,        \* f.Content
    handle,         \* what internalMigrate executes on: "db" or "tx"
    sending,        \* the message Migrate is blocked sending, NoMsg if none
    received,       \* the messages the caller has received from the channel
    closeCount,     \* how many times the channel of this call was closed
    trace,          \* the events of the current call, in order
    rowsBefore,     \* rows when the current call began
    prev,           \* the call before the current one, if a successful Up:
                    \* its version and what Version() reported before it
    versionResult,  \* what the last Version() returned
    sqlErr          \* the error the SQL text of the current call failed with

vars == << initResult, initSteps, db, tableExists, rows, schema, txState, txRows, txSchema,
           pc, f, content, handle, sending, received, closeCount, trace,
           rowsBefore, prev, versionResult, sqlErr >>

dbVars == << rows, schema, txState, txRows, txSchema >>
initVars == << initResult, initSteps, db, tableExists >>
callVars == << f, rowsBefore, prev, sqlErr >>

\* An event: its name, what it acted on, whether it succeeded and whether it
\* wrote a version row.
EvW(e, h, ok, w) == [ e |-> e, h |-> h, ok |-> ok, w |-> w ]
Ev(e, h, ok) == EvW(e, h, ok, FALSE)

NoPrev == [ version |-> 0, up |-> FALSE, before |-> 0 ]
NoVersionResult == [ called |-> FALSE, queryFailed |-> FALSE, version |-> 0, err |-> FALSE ]
NoSqlErr == [ kind |-> "none", numeric |-> FALSE, n |-> 0 ]

\* The error values the caller has received.
Errors == SelectSeq(received, LAMBDA m : m.type = "error")

\* The events of the trace with name e.
Events(e) == SelectSeq(trace, LAMBDA x : x.e = e)

Finished == pc \in { "done", "crashed" }

Init ==
    /\ initResult = "none"
    /\ initSteps = << >>
    /\ db = "nil"
    /\ tableExists \in BOOLEAN
    /\ rows \in (IF tableExists THEN SUBSET Versions ELSE { {} })
    /\ schema = "none"
    /\ txState = "none"
    /\ txRows = {}
    /\ txSchema = "none"
    /\ pc = "idle"
    /\ f = NoFile
    /\ content = << >>
    /\ handle = "none"
    /\ sending = NoMsg
    /\ received = << >>
    /\ closeCount = 0
    /\ trace = << >>
    /\ rowsBefore = {}
    /\ prev = NoPrev
    /\ versionResult = NoVersionResult
    /\ sqlErr = NoSqlErr

\* ----------------------------------------------------------- Initialize
\* Initialize: open, ping, then CREATE TABLE IF NOT EXISTS; the first failing
\* step's error is returned.
Step(name, ok) == [ step |-> name, ok |-> ok ]

\* Initialize going on to the table when the ping failed.
InitializeSteps_ignoresPing(openOk, pingOk, createOk) ==
    IF ~ openOk
    THEN [ result |-> "openErr", steps |-> << Step("open", FALSE) >>,
           setDb |-> FALSE, created |-> FALSE ]
    ELSE IF ~ createOk
    THEN [ result |-> "createErr",
           steps |-> << Step("open", TRUE), Step("ping", pingOk), Step("create", FALSE) >>,
           setDb |-> TRUE, created |-> FALSE ]
    ELSE [ result |-> "ok",
           steps |-> << Step("open", TRUE), Step("ping", pingOk), Step("create", TRUE) >>,
           setDb |-> TRUE, created |-> TRUE ]

\* The body of Initialize for the outcomes of sql.Open, db.Ping and the
\* CREATE TABLE IF NOT EXISTS of ensureVersionTableExists: what it returns,
\* the steps it performed, whether driver.db was set and the table created.
InitializeSteps(openOk, pingOk, createOk) ==
    IF ~ openOk
    THEN [ result |-> "openErr", steps |-> << Step("open", FALSE) >>,
           setDb |-> FALSE, created |-> FALSE ]
    ELSE IF ~ pingOk
    THEN [ result |-> "pingErr", steps |-> << Step("open", TRUE), Step("ping", FALSE) >>,
           setDb |-> FALSE, created |-> FALSE ]
    ELSE IF ~ createOk
    THEN [ result |-> "createErr",
           steps |-> << Step("open", TRUE), Step("ping", TRUE), Step("create", FALSE) >>,
           setDb |-> TRUE, created |-> FALSE ]
    ELSE [ result |-> "ok",
           steps |-> << Step("open", TRUE), Step("ping", TRUE), Step("create", TRUE) >>,
           setDb |-> TRUE, created |-> TRUE ]

Initialize ==
    /\ initResult = "none"
    /\ \E openOk \in BOOLEAN, pingOk \in BOOLEAN, createOk \in BOOLEAN :
        LET r == InitializeSteps(openOk, pingOk, createOk)
        IN  /\ initResult' = r.result
            /\ initSteps' = r.steps
            /\ db' = IF r.setDb THEN "open" ELSE db
            /\ tableExists' = (tableExists \/ r.created)
    /\ UNCHANGED << dbVars, pc, f, content, handle, sending, received, closeCount,
                    trace, rowsBefore, prev, versionResult, sqlErr >>

\* -------------------------------------------------------------- Version
\* Version(): SELECT version ... ORDER BY version DESC LIMIT 1; sql.ErrNoRows
\* is (0, nil), any other error is (0, err). The caller asks for the version
\* between migrations.
Version ==
    /\ initResult = "ok"
    /\ pc \in { "idle", "done" }
    /\ \E queryFails \in BOOLEAN :
        LET ret == VersionReturn(ScanVersion(rows, queryFails))
        IN  versionResult' = [ called |-> TRUE, queryFailed |-> queryFails,
                               version |-> ret.version, err |-> ret.err ]
    /\ UNCHANGED << initVars, dbVars, pc, f, content, handle, sending, received,
                    closeCount, trace, rowsBefore, prev, sqlErr >>

\* -------------------------------------------------------------- Migrate
\* Whether the finished call published no error and did not panic.
Succeeded == pc = "done" /\ Errors = << >>

\* The call of Migrate(f, pipe): defer close(pipe); pipe <- f.
Migrate(file) ==
    /\ initResult = "ok"
    /\ pc \in { "idle", "done" }
    /\ pc' = "read"
    /\ f' = file
    /\ content' = << >>
    /\ handle' = "none"
    /\ sending' = FileMsg(file)
    /\ received' = << >>
    /\ closeCount' = 0
    /\ trace' = << Ev("send", "file", TRUE) >>
    /\ rowsBefore' = rows
    /\ prev' = IF Succeeded /\ f.direction = "Up"
               THEN [ version |-> f.version, up |-> TRUE,
                      before |-> VersionQuery(rowsBefore) ]
               ELSE NoPrev
    /\ schema' = "none"
    /\ txState' = "none"
    /\ txRows' = {}
    /\ txSchema' = "none"
    /\ versionResult' = NoVersionResult
    /\ sqlErr' = NoSqlErr
    /\ UNCHANGED << initVars, rows >>

\* The caller receives the pending message.
Receive ==
    /\ sending # NoMsg
    /\ received' = Append(received, sending)
    /\ trace' = Append(trace, Ev("recv", sending.kind, TRUE))
    /\ sending' = NoMsg
    /\ UNCHANGED << initVars, dbVars, pc, content, handle, closeCount, callVars,
                    versionResult >>

\* ReadContent started while the announcement is still pending, as a
\* buffered channel would allow.
ReadContent_eager ==
    /\ pc = "read"
    /\ \E ok \in BOOLEAN :
        IF ok
        THEN /\ content' = f.text
             /\ trace' = Append(trace, Ev("ReadContent", "file", TRUE))
             /\ IF canUseTransaction(f.text)
                THEN pc' = "begin" /\ handle' = "none"
                ELSE pc' = "exec" /\ handle' = "db"
             /\ UNCHANGED sending
        ELSE /\ sending' = ErrMsg("read")
             /\ trace' = trace \o << Ev("ReadContent", "file", FALSE), Ev("send", "read", TRUE) >>
             /\ pc' = "ret"
             /\ UNCHANGED << content, handle >>
    /\ UNCHANGED << initVars, dbVars, received, closeCount, callVars, versionResult >>

\* f.ReadContent(), then the choice of the path by canUseTransaction.
ReadContent ==
    /\ pc = "read"
    /\ sending = NoMsg
    /\ \E ok \in BOOLEAN :
        IF ok
        THEN /\ content' = f.text
             /\ trace' = Append(trace, Ev("ReadContent", "file", TRUE))
             /\ IF canUseTransaction(f.text)
                THEN pc' = "begin" /\ handle' = "none"
                ELSE pc' = "exec" /\ handle' = "db"
             /\ UNCHANGED sending
        ELSE /\ sending' = ErrMsg("read")
             /\ trace' = trace \o << Ev("ReadContent", "file", FALSE), Ev("send", "read", TRUE) >>
             /\ pc' = "ret"
             /\ UNCHANGED << content, handle >>
    /\ UNCHANGED << initVars, dbVars, received, closeCount, callVars, versionResult >>

\* Begin going on with the execution after its error was sent.
Begin_continuesAfterError ==
    /\ pc = "begin"
    /\ sending = NoMsg
    /\ \E ok \in BOOLEAN :
        /\ txState' = IF ok THEN "open" ELSE txState
        /\ sending' = IF ok THEN sending ELSE ErrMsg("begin")
        /\ trace' = IF ok THEN Append(trace, Ev("Begin", "db", TRUE))
                  ELSE trace \o << Ev("Begin", "db", FALSE), Ev("send", "begin", TRUE) >>
    /\ txRows' = rows
    /\ txSchema' = schema
    /\ handle' = "tx"
    /\ pc' = "exec"
    /\ UNCHANGED << initVars, rows, schema, content, received, closeCount, callVars,
                    versionResult >>

\* Begin called again after its error was sent.
Begin_retries ==
    /\ pc = "begin"
    /\ sending = NoMsg
    /\ \E ok \in BOOLEAN :
        IF ok
        THEN /\ txState' = "open"
             /\ txRows' = rows
             /\ txSchema' = schema
             /\ handle' = "tx"
             /\ trace' = Append(trace, Ev("Begin", "db", TRUE))
             /\ pc' = "exec"
             /\ UNCHANGED sending
        ELSE /\ sending' = ErrMsg("begin")
             /\ trace' = trace \o << Ev("Begin", "db", FALSE), Ev("send", "begin", TRUE) >>
             /\ pc' = "begin"
             /\ UNCHANGED << txState, txRows, txSchema, handle >>
    /\ UNCHANGED << initVars, rows, schema, content, received, closeCount, callVars,
                    versionResult >>

\* driver.db.Begin()
Begin ==
    /\ pc = "begin"
    /\ sending = NoMsg
    /\ \E ok \in BOOLEAN :
        IF ok
        THEN /\ txState' = "open"
             /\ txRows' = rows
             /\ txSchema' = schema
             /\ handle' = "tx"
             /\ trace' = Append(trace, Ev("Begin", "db", TRUE))
             /\ pc' = "exec"
             /\ UNCHANGED sending
        ELSE /\ sending' = ErrMsg("begin")
             /\ trace' = trace \o << Ev("Begin", "db", FALSE), Ev("send", "begin", TRUE) >>
             /\ pc' = "ret"
             /\ UNCHANGED << txState, txRows, txSchema, handle >>
    /\ UNCHANGED << initVars, rows, schema, content, received, closeCount, callVars,
                    versionResult >>

\* The table of schema_migrations the handle of internalMigrate sees.
HandleRows == IF handle = "tx" THEN txRows ELSE rows

\* The error of internalMigrate sent without a return: the transactional
\* path falls through to the commit.
PublishRoutineError_fallsThrough(msg, events) ==
    /\ sending' = msg
    /\ trace' = trace \o events \o << Ev("send", msg.kind, TRUE) >>
    /\ pc' = IF handle = "tx" THEN "commit" ELSE "ret"
    /\ UNCHANGED closeCount

\* What Migrate does with the error internalMigrate returned: pipe <- err,
\* then the rollback in the transactional path.
PublishRoutineError(msg, events) ==
    /\ sending' = msg
    /\ trace' = trace \o events \o << Ev("send", msg.kind, TRUE) >>
    /\ pc' = IF handle = "tx" THEN "rollback" ELSE "ret"
    /\ UNCHANGED closeCount

\* tx.Exec(string(f.Content)) of internalMigrate and the handling of its error.
\* A text that fails may have applied a part of its statements: on the
\* connection they stay, in a transaction they are pending. An error that is
\* no *pq.Error makes the type assertion panic: the deferred close runs and
\* the process ends (the server then aborts an open transaction).
ExecSQL ==
    /\ pc = "exec"
    /\ sending = NoMsg
    /\ \/ \* the text succeeds
          /\ IF handle = "tx"
             THEN txSchema' = "full" /\ UNCHANGED schema
             ELSE schema' = "full" /\ UNCHANGED txSchema
          /\ trace' = Append(trace, Ev("ExecSQL", handle, TRUE))
          /\ pc' = "version"
          /\ UNCHANGED << sending, closeCount, txState, sqlErr >>
       \/ \* a *pq.Error
          /\ \E pos \in PqPositions(content), part \in { "none", "partial" } :
               /\ IF handle = "tx"
                  THEN txSchema' = part /\ UNCHANGED schema
                  ELSE schema' = part /\ UNCHANGED txSchema
               /\ sqlErr' = [ kind |-> "pq", numeric |-> pos.numeric, n |-> pos.n ]
               /\ \E msg \in PqErrorMsgs(content, pos) :
                    PublishRoutineError(msg, << Ev("ExecSQL", handle, FALSE) >>)
          /\ UNCHANGED txState
       \/ \* an error of another type: err.(*pq.Error) panics
          /\ \E part \in { "none", "partial" } :
               IF handle = "tx"
               THEN /\ txState' = "aborted"
                    /\ txSchema' = part
                    /\ UNCHANGED schema
               ELSE /\ schema' = part
                    /\ UNCHANGED << txState, txSchema >>
          /\ trace' = trace \o << Ev("ExecSQL", handle, FALSE), Ev("panic", "pq", TRUE),
                                  Ev("close", "pipe", TRUE) >>
          /\ closeCount' = closeCount + 1
          /\ pc' = "crashed"
          /\ sqlErr' = [ NoSqlErr EXCEPT !.kind = "other" ]
          /\ UNCHANGED sending
    /\ UNCHANGED << initVars, rows, txRows, content, handle, received, f, rowsBefore,
                    prev, versionResult >>

\* The INSERT or DELETE of the version row in internalMigrate. A statement
\* that fails on the connection leaves the table as it was; inside a
\* transaction the row may have been written before the error was raised and
\* stays pending until the transaction ends.
UpdateVersion ==
    /\ pc = "version"
    /\ sending = NoMsg
    /\ \/ \* the statement succeeds
          /\ ~ PrimaryKeyViolation(HandleRows, f)
          /\ IF handle = "tx"
             THEN txRows' = VersionStmt(txRows, f) /\ UNCHANGED rows
             ELSE rows' = VersionStmt(rows, f) /\ UNCHANGED txRows
          /\ trace' = Append(trace, EvW("ExecVersion", handle, TRUE,
                                         VersionStmt(HandleRows, f) # HandleRows))
          /\ pc' = IF handle = "tx" THEN "commit" ELSE "ret"
          /\ UNCHANGED << sending, closeCount >>
       \/ \* the statement fails
          /\ IF handle = "tx" /\ ~ PrimaryKeyViolation(HandleRows, f)
             THEN txRows' \in { txRows, VersionStmt(txRows, f) }
             ELSE UNCHANGED txRows
          /\ UNCHANGED rows
          /\ PublishRoutineError(ErrMsg("version"),
                                 << EvW("ExecVersion", handle, FALSE, txRows' # txRows) >>)
    /\ UNCHANGED << initVars, schema, txState, txSchema, content, handle, received,
                    callVars, versionResult >>

\* The rollback step keeping the pending work of the transaction (tx.Commit
\* called where tx.Rollback is).
Rollback_commits ==
    /\ pc = "rollback"
    /\ sending = NoMsg
    /\ rows' = txRows
    /\ schema' = txSchema
    /\ txState' = "committed"
    /\ trace' = Append(trace, Ev("Rollback", "tx", TRUE))
    /\ pc' = "ret"
    /\ UNCHANGED << initVars, txRows, txSchema, content, handle, sending, received,
                    closeCount, callVars, versionResult >>

\* tx.Rollback() after the error of internalMigrate was sent; its own error
\* is sent too. The pending work of the transaction is discarded either way.
Rollback ==
    /\ pc = "rollback"
    /\ sending = NoMsg
    /\ txRows' = rows
    /\ txSchema' = schema
    /\ \E ok \in BOOLEAN :
        IF ok
        THEN /\ txState' = "rolledback"
             /\ trace' = Append(trace, Ev("Rollback", "tx", TRUE))
             /\ UNCHANGED sending
        ELSE /\ txState' = "broken"
             /\ sending' = ErrMsg("rollback")
             /\ trace' = trace \o << Ev("Rollback", "tx", FALSE), Ev("send", "rollback", TRUE) >>
    /\ pc' = "ret"
    /\ UNCHANGED << initVars, rows, schema, content, handle, received, closeCount,
                    callVars, versionResult >>

\* tx.Commit() whose error is not sent.
Commit_silent ==
    /\ pc = "commit"
    /\ sending = NoMsg
    /\ \E ok \in BOOLEAN :
        /\ IF ok
           THEN rows' = txRows /\ schema' = txSchema
           ELSE UNCHANGED << rows, schema >>
        /\ txState' = IF ok THEN "committed" ELSE "broken"
        /\ trace' = Append(trace, Ev("Commit", "tx", ok))
    /\ pc' = "ret"
    /\ UNCHANGED << initVars, txRows, txSchema, content, handle, sending, received,
                    closeCount, callVars, versionResult >>

\* tx.Commit(); its error is sent. A commit that reports an error may or may
\* not have taken effect.
Commit ==
    /\ pc = "commit"
    /\ sending = NoMsg
    /\ \E ok \in BOOLEAN, applied \in BOOLEAN :
        /\ ok => applied
        /\ IF applied
           THEN rows' = txRows /\ schema' = txSchema
           ELSE UNCHANGED << rows, schema >>
        /\ IF ok
           THEN /\ txState' = "committed"
                /\ trace' = Append(trace, Ev("Commit", "tx", TRUE))
                /\ UNCHANGED sending
           ELSE /\ txState' = "broken"
                /\ sending' = ErrMsg("commit")
                /\ trace' = trace \o << Ev("Commit", "tx", FALSE), Ev("send", "commit", TRUE) >>
    /\ pc' = "ret"
    /\ UNCHANGED << initVars, txRows, txSchema, content, handle, received, closeCount,
                    callVars, versionResult >>

\* Migrate with the close at the end of the successful path only, not
\* deferred: a return after an error leaves the channel open.
Return_closesOnSuccessOnly ==
    /\ pc = "ret"
    /\ sending = NoMsg
    /\ closeCount' = IF Errors = << >> THEN closeCount + 1 ELSE closeCount
    /\ trace' = IF Errors = << >> THEN Append(trace, Ev("close", "pipe", TRUE)) ELSE trace
    /\ pc' = "done"
    /\ UNCHANGED << initVars, dbVars, content, handle, sending, received, callVars,
                    versionResult >>

\* Migrate returning without the deferred close.
Return_noClose ==
    /\ pc = "ret"
    /\ sending = NoMsg
    /\ pc' = "done"
    /\ UNCHANGED << initVars, dbVars, content, handle, sending, received, closeCount,
                    trace, callVars, versionResult >>

\* Migrate returns: the deferred close(pipe) runs.
Return ==
    /\ pc = "ret"
    /\ sending = NoMsg
    /\ closeCount' = closeCount + 1
    /\ trace' = Append(trace, Ev("close", "pipe", TRUE))
    /\ pc' = "done"
    /\ UNCHANGED << initVars, dbVars, content, handle, sending, received, callVars,
                    versionResult >>

MigrateCall == \E file \in Files : Migrate(file)

Next ==
    \/ Initialize
    \/ Version
    \/ MigrateCall
    \/ Receive
    \/ ReadContent
    \/ Begin
    \/ ExecSQL
    \/ UpdateVersion
    \/ Rollback
    \/ Commit
    \/ Return

Spec == Init /\ [][Next]_vars

\* The caller keeps receiving and every I/O call of Migrate returns: each
\* step of a running call is taken when it stays enabled. Starting a call is
\* left to the caller and is not forced.
FairSpec ==
    /\ Spec
    /\ WF_vars(Receive)
    /\ WF_vars(ReadContent)
    /\ WF_vars(Begin)
    /\ WF_vars(ExecSQL)
    /\ WF_vars(UpdateVersion)
    /\ WF_vars(Rollback)
    /\ WF_vars(Commit)
    /\ WF_vars(Return)

\* ======================================================================
\* Properties
\* ======================================================================
Count(e) == Len(Events(e))

\* The positions of the trace that hold an event named e.
Positions(e) == { i \in 1..Len(trace) : trace[i].e = e }

\* Whether an I/O call of the current call failed.
Failed == \E i \in 1..Len(trace) : ~ trace[i].ok

\* Whether the execution routine (internalMigrate) failed.
RoutineFailed ==
    \E i \in 1..Len(trace) : trace[i].e \in { "ExecSQL", "ExecVersion" } /\ ~ trace[i].ok

\* Whether a text starts with the bytes of the marker, compared one by one.
StartsWithMarker(text) ==
    /\ Len(text) >= 27
    /\ \A i \in 1..27 : text[i] = NoTransactionMarker[i]

ContentRead == \E i \in 1..Len(trace) : trace[i].e = "ReadContent" /\ trace[i].ok

\* C1: every call of Migrate closes the progress channel exactly once: the
\* channel is never closed twice, it is closed when and only when the call
\* has ended, on whatever path, and the close is the last event of the call
\* (nothing is sent after it, and no send is pending).
C1_ClosedExactlyOnce ==
    /\ closeCount <= 1
    /\ closeCount = Count("close")
    /\ Finished <=> closeCount = 1
    /\ closeCount = 1 => /\ sending = NoMsg
                         /\ trace[Len(trace)].e = "close"
                         /\ \A i \in Positions("send") : i < Len(trace)

\* C1 witness: a call that ended after an execution failure and a failing
\* rollback, with the channel closed once.
C1_Witness ==
    /\ pc = "done"
    /\ closeCount = 1
    /\ Len(Errors) = 2
    /\ Errors[2].kind = "rollback"

\* C2: in the transactional path, once the execution routine has failed, the
\* rollback has succeeded and Migrate has returned, schema_migrations holds
\* the rows it held when Migrate began.
C2_Atomicity ==
    ( /\ pc = "done"
      /\ ~ StartsWithMarker(f.text)
      /\ RoutineFailed
      /\ \E i \in Positions("Rollback") : trace[i].ok )
    => rows = rowsBefore

\* C2 witness: the version row was written inside the transaction before the
\* statement failed, the rollback succeeded and the call has returned.
C2_Witness ==
    /\ pc = "done"
    /\ ~ StartsWithMarker(f.text)
    /\ \E i \in Positions("ExecVersion") : ~ trace[i].ok /\ trace[i].w
    /\ \E i \in Positions("Rollback") : trace[i].ok
    /\ rows = rowsBefore

\* C3: once the content is read, a text that starts with the marker is run
\* with no Begin, Commit or Rollback and every statement on the connection;
\* any other text has Begin called exactly once, before any statement, and
\* every statement runs on the transaction.
C3_TransactionIffNoMarker ==
    ContentRead =>
        IF StartsWithMarker(f.text)
        THEN /\ Count("Begin") = 0 /\ Count("Commit") = 0 /\ Count("Rollback") = 0
             /\ \A i \in Positions("ExecSQL") \cup Positions("ExecVersion") :
                    trace[i].h = "db"
        ELSE /\ Count("Begin") <= 1
             /\ pc # "begin" => Count("Begin") = 1
             /\ \A i \in Positions("ExecSQL") \cup Positions("ExecVersion") :
                    /\ trace[i].h = "tx"
                    /\ \E b \in Positions("Begin") : b < i /\ trace[b].ok

\* C3 witness: a text whose marker ends in CR LF was run in a transaction.
C3_Witness ==
    /\ pc = "done"
    /\ f.text = CrLfMarkedSql
    /\ Count("Begin") = 1
    /\ Count("ExecSQL") = 1
    /\ Count("Commit") = 1

\* C4 (as claimed): the channel carries the file first, exactly once and
\* before anything else happens, then error values only; a call that ended
\* without a failure sent no error, a call in which something failed sent at
\* least one error and at most two, two only for an execution failure
\* followed by a rollback failure.
C4_MessageSequence ==
    /\ trace # << >> => trace[1] = Ev("send", "file", TRUE)
    /\ received # << >> =>
          /\ received[1] = FileMsg(f)
          /\ \A i \in 2..Len(received) : received[i].type = "error"
    /\ Finished =>
          /\ Len(received) >= 1
          /\ ~ Failed => Len(Errors) = 0
          /\ Failed => Len(Errors) \in 1..2
          /\ Len(Errors) = 2 =>
                /\ RoutineFailed
                /\ \E i \in Positions("Rollback") : ~ trace[i].ok

\* C5 (as claimed): whenever the SQL text has executed successfully, the
\* finished call has added exactly the row of its version (Up) or removed
\* exactly that row (Down), and a Down of a missing row published no error.
C5_VersionRowWheneverSqlSucceeds ==
    ( pc = "done" /\ \E i \in Positions("ExecSQL") : trace[i].ok ) =>
        /\ f.direction = "Up" =>
              f.version \notin rowsBefore /\ rows = rowsBefore \cup { f.version }
        /\ f.direction = "Down" => rows = rowsBefore \ { f.version }
        /\ f.direction = "Down" /\ f.version \notin rowsBefore => Errors = << >>

\* C5 (amended): a call that ended without publishing any error has, for Up,
\* added exactly the row of its version, which was not there before, and for
\* Down removed exactly that row, nothing when the row was missing; every
\* other row is as it was. An Up whose row was already there, once its SQL
\* text has run, publishes an error and changes no row.
C5_VersionRowOnSuccess ==
    /\ Succeeded =>
          /\ f.direction = "Up" =>
                /\ f.version \notin rowsBefore
                /\ rows \ rowsBefore = { f.version }
                /\ rowsBefore \subseteq rows
          /\ f.direction = "Down" =>
                /\ f.version \notin rows
                /\ rowsBefore \ rows \subseteq { f.version }
                /\ rows \subseteq rowsBefore
    /\ ( /\ pc = "done"
         /\ f.direction = "Up"
         /\ f.version \in rowsBefore
         /\ \E i \in Positions("ExecSQL") : trace[i].ok )
       => Errors # << >> /\ rows = rowsBefore

\* C5 witness: a Down migration ended without error and removed its row
\* while another row stayed.
C5_Witness ==
    /\ Succeeded
    /\ f.direction = "Down"
    /\ f.version \in rowsBefore
    /\ rows # {}
    /\ rows = rowsBefore \ { f.version }

\* C6: when a successful Up of version v is followed by a successful Down of
\* v, Version() reports what it reported before the Up began.
C6_RoundTrip ==
    ( /\ Succeeded
      /\ f.direction = "Down"
      /\ prev.up
      /\ prev.version = f.version )
    => /\ VersionQuery(rows) = prev.before
       /\ ( versionResult.called /\ ~ versionResult.queryFailed )
             => versionResult.version = prev.before

\* C6 witness: the round trip of a version below the greatest stored one, with
\* Version() asked after it.
C6_Witness ==
    /\ Succeeded
    /\ f.direction = "Down"
    /\ prev.up
    /\ prev.version = f.version
    /\ prev.before > f.version
    /\ versionResult.called
    /\ ~ versionResult.err

\* C7: Version() returns the greatest stored version with no error, (0, nil)
\* for the empty table, and (0, error) exactly when the query fails for
\* another reason than the absence of rows; it changes no row.
C7_VersionState ==
    versionResult.called =>
        /\ versionResult.err <=> versionResult.queryFailed
        /\ versionResult.err => versionResult.version = 0
        /\ ~ versionResult.err =>
              /\ rows = {} => versionResult.version = 0
              /\ rows # {} => /\ versionResult.version \in rows
                              /\ \A x \in rows : x <= versionResult.version

C7_Version == [] C7_VersionState /\ [][Version => rows' = rows /\ tableExists' = tableExists]_vars

\* C7 witness: Version() was asked on the empty table and returned (0, nil).
C7_Witness ==
    /\ versionResult.called
    /\ rows = {}
    /\ versionResult.version = 0
    /\ ~ versionResult.err

\* The error messages with a line and a column that were published.
PositionedErrors ==
    { m \in { received[i] : i \in 1..Len(received) } \cup { sending } : m.kind = "execAt" }

\* The line feeds among the first n bytes of the content.
NewlinesBefore(n) == { i \in 1..n : content[i] = LF }

\* "BAD SQL;", the second line of SampleSql.
SampleLine2 == << "B", "A", "D", " ", "S", "Q", "L", ";" >>

InContext(m, text) == \E i \in 1..Len(m.context) : m.context[i] = text

\* C8 (as claimed): for a pq error with an offset p into the text, p taken as
\* a 0-based byte position, the message reports the line 1 + the number of
\* line feeds before p and the column p + 1 - the position of the last of
\* them; offset 10 in SampleSql is line 2 with the text of line 2 in the
\* context, offset 0 is line 1, column 1.
C8_OffsetIsZeroBased ==
    ( sqlErr.kind = "pq" /\ sqlErr.numeric /\ sqlErr.n >= 0 /\ sqlErr.n < Len(content) ) =>
        \A m \in PositionedErrors :
            /\ m.line = 1 + Cardinality(NewlinesBefore(sqlErr.n))
            /\ m.column = sqlErr.n + 1 - MaxOf(NewlinesBefore(sqlErr.n) \cup { 0 })
            /\ content = SampleSql /\ sqlErr.n = 10 =>
                  m.line = 2 /\ InContext(m, SampleLine2)
            /\ sqlErr.n = 0 => m.line = 1 /\ m.column = 1

\* C8 (amended): the reported position p is taken as 1-based. For a pq error
\* with 1 <= p <= length of the text + 1, the message reports the line 1 + the
\* number of line feeds among the p - 1 bytes before the position, and the
\* column p - the position of the last of those line feeds, and its context
\* holds the text of that line. Position 10 in SampleSql (the line feed that
\* ends line 1) is line 1, column 10, with the text of line 2 in the context;
\* position 11 is line 2, column 1.
C8_OffsetIsOneBased ==
    ( sqlErr.kind = "pq" /\ sqlErr.numeric /\ sqlErr.n >= 1 /\ sqlErr.n <= Len(content) + 1 ) =>
        /\ pc # "crashed" => PositionedErrors # {}
        /\ \A m \in PositionedErrors :
            /\ m.line = 1 + Cardinality(NewlinesBefore(sqlErr.n - 1))
            /\ m.column = sqlErr.n - MaxOf(NewlinesBefore(sqlErr.n - 1) \cup { 0 })
            /\ InContext(m, Lines(content)[m.line])
            /\ content = SampleSql /\ sqlErr.n = 10 =>
                  m.line = 1 /\ m.column = 10 /\ InContext(m, SampleLine2)
            /\ content = SampleSql /\ sqlErr.n = 11 => m.line = 2 /\ m.column = 1

\* C8 witness: the caller received the error of SampleSql failing at position
\* 11, reported in line 2, column 1.
C8_Witness ==
    /\ content = SampleSql
    /\ sqlErr.kind = "pq" /\ sqlErr.numeric /\ sqlErr.n = 11
    /\ Len(Errors) >= 1
    /\ Errors[1].kind = "execAt"
    /\ Errors[1].line = 2
    /\ Errors[1].column = 1

\* C9 (as claimed): in the transactional path a failure of the execution
\* routine is published first, then the rollback is attempted exactly once,
\* after the error was sent; a failing rollback adds its error as a second
\* message; Commit is not called.
C9_ErrorThenRollback ==
    ( Finished /\ ContentRead /\ ~ StartsWithMarker(f.text) /\ RoutineFailed ) =>
        /\ Len(Errors) >= 1
        /\ Errors[1].kind \in { "execAt", "execPlain", "version" }
        /\ Count("Rollback") = 1
        /\ Count("Commit") = 0
        /\ \A r \in Positions("Rollback") :
              /\ \E i \in Positions("send") : i < r /\ trace[i].h = Errors[1].kind
              /\ ~ trace[r].ok => Len(Errors) = 2 /\ Errors[2].kind = "rollback"
              /\ trace[r].ok => Len(Errors) = 1

\* C10 (as claimed): when the SQL text fails with an error that is no pq
\* error, the process does not crash: an error is published, the transaction
\* is rolled back if one was begun, and the channel is closed.
C10_NoCrashOnForeignError ==
    sqlErr.kind = "other" =>
        /\ pc # "crashed"
        /\ Finished =>
              /\ Errors # << >>
              /\ closeCount = 1
              /\ handle = "tx" => Count("Rollback") = 1

\* Whether an event named e with the given outcome is in the trace.
Did(e, ok) == \E i \in Positions(e) : trace[i].ok = ok

\* The calls on the database, the connection or the transaction.
DbCalls == { "Begin", "ExecSQL", "ExecVersion", "Commit", "Rollback" }

\* C11 (as claimed): in the no-transaction path nothing compensates a
\* failure: no Begin, Commit or Rollback is called and no statement follows a
\* failed one; a failing SQL text publishes exactly one error, runs no version
\* statement, leaves schema_migrations as it was and keeps what it applied; a
\* failing version statement after a successful SQL text publishes exactly one
\* error and leaves the effect of the SQL text applied and schema_migrations
\* unchanged.
C11_NoCompensation ==
    ( Finished /\ ContentRead /\ StartsWithMarker(f.text) ) =>
        /\ Count("Begin") = 0 /\ Count("Commit") = 0 /\ Count("Rollback") = 0
        /\ \A i \in 1..Len(trace) :
              ( trace[i].e \in DbCalls /\ ~ trace[i].ok ) =>
                  \A j \in (i + 1)..Len(trace) : trace[j].e \notin DbCalls
        /\ Did("ExecSQL", FALSE) =>
              /\ Len(Errors) = 1
              /\ Errors[1].kind \in { "execAt", "execPlain" }
              /\ Count("ExecVersion") = 0
              /\ rows = rowsBefore
              /\ schema \in { "none", "partial" }
        /\ ( Did("ExecSQL", TRUE) /\ Did("ExecVersion", FALSE) ) =>
              /\ Len(Errors) = 1
              /\ Errors[1].kind = "version"
              /\ schema = "full"
              /\ rows = rowsBefore

\* Whether the current call runs in a transaction that was begun.
InTransaction == ContentRead /\ ~ StartsWithMarker(f.text) /\ Did("Begin", TRUE)

\* C12: in the transactional path Commit is called at most once, and exactly
\* when the SQL text and the version statement both succeeded. A failing
\* commit publishes its error as the only one, with no rollback, and the
\* channel is closed; after a successful commit no error was published and
\* the effect of the SQL text and the version row are both visible.
C12_CommitIffRoutineSucceeded ==
    InTransaction =>
        /\ Count("Commit") <= 1
        /\ Count("Commit") = 1 <=>
              ( Did("ExecSQL", TRUE) /\ Did("ExecVersion", TRUE) /\ pc # "commit" )
        /\ ( pc = "done" /\ Did("Commit", FALSE) ) =>
              /\ Len(Errors) = 1
              /\ Errors[1].kind = "commit"
              /\ Count("Rollback") = 0
              /\ closeCount = 1
        /\ ( pc = "done" /\ Did("Commit", TRUE) ) =>
              /\ Errors = << >>
              /\ schema = "full"
              /\ f.direction = "Up" =>
                    f.version \in rows /\ rows = rowsBefore \cup { f.version }
              /\ f.direction = "Down" =>
                    f.version \notin rows /\ rows = rowsBefore \ { f.version }

\* C12 witness: the commit failed and the call returned with that one error.
C12_Witness ==
    /\ pc = "done"
    /\ InTransaction
    /\ Did("Commit", FALSE)
    /\ Len(Errors) = 1
    /\ Errors[1].kind = "commit"

\* The order of the steps of Initialize.
InitOrder == << "open", "ping", "create" >>

C13_InitState ==
    initResult # "none" =>
        /\ Len(initSteps) \in 1..3
        /\ \A i \in 1..Len(initSteps) :
              /\ initSteps[i].step = InitOrder[i]
              /\ initSteps[i].ok <=> ( i < Len(initSteps) \/ initResult = "ok" )
        /\ initResult = "ok" <=> ( Len(initSteps) = 3 /\ initSteps[3].ok )
        /\ initResult = "openErr" <=> ~ initSteps[1].ok
        /\ initResult = "pingErr" <=> ( Len(initSteps) = 2 /\ ~ initSteps[2].ok )
        /\ initResult = "createErr" <=> ( Len(initSteps) = 3 /\ ~ initSteps[3].ok )
        /\ initResult = "ok" => tableExists /\ db = "open"

\* C13: Initialize performs open, ping and create-table in this order and
\* stops at the first step that fails, returning its error; it returns nil only
\* when the three steps succeeded; the table is not created when open or ping
\* fails; a table that exists stays, with every row, whatever Initialize
\* returns.
C13_Initialize ==
    /\ [] C13_InitState
    /\ [][ ( initResult = "none" /\ initResult' # "none" ) =>
              /\ rows' = rows
              /\ tableExists => tableExists'
              /\ initResult' # "ok" => tableExists' = tableExists ]_vars

\* C13 witness: Initialize returned nil on a database whose table held rows.
C13_Witness ==
    /\ initResult = "ok"
    /\ pc = "idle"
    /\ rows # {}
    /\ tableExists

\* C14: in the transactional path, when the SQL text succeeded and the
\* version statement failed, the failure is published first, the rollback is
\* attempted once and Commit is not called; after the call neither the effect
\* of the SQL text nor a change of the version rows is visible.
C14_VersionFailureRollsBack ==
    ( pc = "done" /\ InTransaction /\ Did("ExecSQL", TRUE) /\ Did("ExecVersion", FALSE) ) =>
        /\ Len(Errors) >= 1
        /\ Errors[1].kind = "version"
        /\ Count("Rollback") = 1
        /\ Count("Commit") = 0
        /\ schema = "none"
        /\ rows = rowsBefore

\* C14 witness: an Up of a stored version failed on the primary key after its
\* SQL text had run, and the rollback succeeded.
C14_Witness ==
    /\ pc = "done"
    /\ InTransaction
    /\ f.direction = "Up"
    /\ f.version \in rowsBefore
    /\ Did("ExecSQL", TRUE)
    /\ Did("ExecVersion", FALSE)
    /\ Did("Rollback", TRUE)
    /\ schema = "none"

\* Every event of the goroutine other than a send or a receipt happens when
\* all the messages sent before it have been received.
C15_Order ==
    \A j \in 1..Len(trace) :
        trace[j].e \notin { "send", "recv" } =>
            Cardinality({ i \in 1..(j - 1) : trace[i].e = "send" })
                = Cardinality({ i \in 1..(j - 1) : trace[i].e = "recv" })

\* C15: Migrate does not go past a send before the message is received: the
\* content is read and the database is called only when every earlier
\* message was received, and while a message is pending no step moves
\* Migrate, touches the database or closes the channel; only the receipt
\* ends the wait.
C15_SendIsBarrier ==
    /\ [] C15_Order
    /\ [] ( sending # NoMsg => closeCount = 0 /\ pc \notin { "done", "crashed" } )
    /\ [][ sending # NoMsg =>
             /\ pc' = pc
             /\ closeCount' = closeCount
             /\ content' = content
             /\ UNCHANGED dbVars
             /\ ( sending' # sending => sending' = NoMsg /\ Len(received') = Len(received) + 1 ) ]_vars

\* C15 witness: the error of the execution is pending and the rollback has
\* not been attempted.
C15_Witness ==
    /\ sending # NoMsg
    /\ sending.type = "error"
    /\ pc = "rollback"
    /\ Count("Rollback") = 0
    /\ txState = "open"

\* The positions of Migrate between its start and its return.
Running == { "read", "begin", "exec", "version", "rollback", "commit", "ret" }

\* C16: when the caller keeps receiving and every I/O call returns, a call
\* of Migrate closes the channel; the channel is closed by the return of
\* Migrate alone (or by the unwinding of a panic), so a call that stays at
\* one of its steps leaves the channel open.
C16_EventuallyClosed ==
    /\ ( pc \in Running ) ~> ( closeCount = 1 )
    /\ [] ( pc \in Running => closeCount = 0 )
    /\ [][ closeCount' # closeCount /\ pc \in Running =>
             /\ pc \in { "ret", "exec" }
             /\ pc' \in { "done", "crashed" }
             /\ closeCount' = 1 ]_vars

\* C16 witness: a call that published an error and rolled back has closed
\* the channel.
C16_Witness ==
    /\ pc = "done"
    /\ closeCount = 1
    /\ Len(Errors) >= 1
    /\ Count("Rollback") = 1

\* C17: when the content cannot be read, the read error is the only error,
\* no call on the database is made, schema_migrations is unchanged and the
\* channel is closed; when Begin fails, the Begin error is the only error,
\* neither the SQL text nor the version statement runs, neither Commit nor
\* Rollback is called and the channel is closed.
C17_ReadOrBeginFailure ==
    /\ Did("ReadContent", FALSE) =>
          /\ \A i \in 1..Len(trace) : trace[i].e \notin DbCalls
          /\ rows = rowsBefore
          /\ schema = "none"
          /\ \A i \in 1..Len(Errors) : Errors[i].kind = "read"
          /\ pc = "done" => Len(Errors) = 1 /\ closeCount = 1
    /\ Did("Begin", FALSE) =>
          /\ \A i \in 1..Len(trace) : trace[i].e \notin (DbCalls \ { "Begin" })
          /\ Count("Begin") = 1
          /\ rows = rowsBefore
          /\ schema = "none"
          /\ \A i \in 1..Len(Errors) : Errors[i].kind = "begin"
          /\ pc = "done" => Len(Errors) = 1 /\ closeCount = 1

\* C17 witness: Begin failed and the call returned with that one error.
C17_Witness ==
    /\ pc = "done"
    /\ Did("Begin", FALSE)
    /\ Len(Errors) = 1
    /\ closeCount = 1

\* The positions of the trace where an error is sent.
ErrorSends == { i \in Positions("send") : trace[i].h # "file" }

\* C18: in one call the SQL text runs at most once, the version statement at
\* most once and only after the SQL text succeeded, Begin at most once; after
\* the first error is sent no statement runs and nothing is committed: the
\* only call on the database that can follow is one rollback, in the
\* transactional path.
C18_NoRetries ==
    /\ Count("ExecSQL") <= 1
    /\ Count("ExecVersion") <= 1
    /\ Count("Begin") <= 1
    /\ Count("Commit") <= 1
    /\ Count("Rollback") <= 1
    /\ Count("ReadContent") <= 1
    /\ \A v \in Positions("ExecVersion") :
          \E x \in Positions("ExecSQL") : x < v /\ trace[x].ok
    /\ \A e \in ErrorSends : \A j \in (e + 1)..Len(trace) :
          /\ trace[j].e \in { "send", "recv", "close", "Rollback" }
          /\ trace[j].e = "Rollback" => trace[j].h = "tx" /\ Did("Begin", TRUE)

\* C18 witness: after the error of the version statement the rollback was the
\* only call on the database, and the call returned.
C18_Witness ==
    /\ pc = "done"
    /\ Did("ExecVersion", FALSE)
    /\ Count("ExecSQL") = 1
    /\ Count("Rollback") = 1

\* C19 (as claimed): when the channel is closed, a transaction that was begun
\* has been finished by exactly one call of Commit or Rollback, and is not
\* open.
C19_TransactionFinished ==
    ( closeCount >= 1 /\ Did("Begin", TRUE) ) =>
        /\ Count("Commit") + Count("Rollback") = 1
        /\ txState # "open"

====
